---- MODULE Spec2Model ----
(***************************************************************************)
(* A model of parseq.py: the tokenizer, the recursive-descent Parser, and  *)
(* the two renderers (transform_ast and Flattener).                        *)
(*                                                                         *)
(* Text is a sequence of one-character strings; a token is a non-empty     *)
(* sequence of characters.  Python indexes from 0, the model from 1.       *)
(***************************************************************************)
EXTENDS Integers, Sequences, FiniteSets, TLC

VARIABLES
  \* tokenize (lines 57-78)
  text,      \* the argument
  i,         \* the loop index (1-based)
  tokens,    \* the list being built; Parser.tokens once built
  starts,    \* history: the value of i at which each token was appended
  tpc,       \* "run" inside the while loop, "done" after the return
  \* Parser (lines 81-205)
  pos,       \* Parser.pos (1-based: pos = Len(tokens) + 1 is "at the end")
  stack,     \* the pending calls of parse_list / parse_dict / the LSymbol loop
  mode,      \* where control is: "expr", "list", "lsym", "ret", "done", "error"
  ret,       \* the node being returned
  err,       \* the exception raised, "" for none
  last,      \* history: what the last step did
  \* renderers (lines 208-333)
  tree,      \* the parsed tree (immutable part)
  fargs,     \* Function.args of every Function node, by the node's path
  counter,   \* Flattener.temp_counter
  out,       \* what the last renderer invocation returned
  calls      \* history: the renderer invocations so far: 0, 1, or 2 for more

vars == <<text, i, tokens, starts, tpc, pos, stack, mode, ret, err, last,
          tree, fargs, counter, out, calls>>


(***************************************************************************)
(* Bounds of the model.                                                    *)
(***************************************************************************)
MaxTextLen == 4

MaxTokens == 4

MaxDictTail == 5

MaxOverrun == 3

MaxNodes == 5

(***************************************************************************)
(* Characters.                                                             *)
(***************************************************************************)
Whitespace == {" ", "\t", "\n"}

Structural == {"[", "]", "(", ")", ",", "{", "}"}

Colon == ":"

\* the word loop stopping at every structural character but ':'
WordStop_NoColon == {"[", "]", "(", ")", "{", "}", ","}

WordStop == {"[", "]", "(", ")", "{", "}", ",", ":"}

Digits == {"0", "1", "2", "3", "4", "5", "6", "7", "8", "9"}

Upper == {"S", "F", "I", "L", "B", "R", "X"}

(***************************************************************************)
(* tokenize                                                                *)
(***************************************************************************)
TextChars == {" ", "\n", "[", "]", "(", ")", ",", "{", "}", ":", "a", "1"}

RECURSIVE SeqsUpTo(_, _)
SeqsUpTo(S, n) ==
  IF n = 0 THEN {<<>>}
  ELSE LET shorter == SeqsUpTo(S, n - 1)
       IN  shorter \cup {Append(s, c) : s \in {t \in shorter : Len(t) = n - 1}, c \in S}

RECURSIVE WordEnd(_, _)
WordEnd(t, j) ==
  IF j <= Len(t) /\ t[j] \notin WordStop /\ t[j] \notin Whitespace
  THEN WordEnd(t, j + 1)
  ELSE j

TokInit ==
  /\ text \in SeqsUpTo(TextChars, MaxTextLen)
  /\ i = 1
  /\ tokens = <<>>
  /\ starts = <<>>
  /\ tpc = "run"

SkipSpace ==
  /\ tpc = "run" /\ i <= Len(text)
  /\ text[i] \in Whitespace
  /\ i' = i + 1
  /\ UNCHANGED <<text, tokens, starts, tpc>>

EmitStructural ==
  /\ tpc = "run" /\ i <= Len(text)
  /\ text[i] \notin Whitespace
  /\ text[i] \in Structural
  /\ tokens' = Append(tokens, <<text[i]>>)
  /\ starts' = Append(starts, i)
  /\ i' = i + 1
  /\ UNCHANGED <<text, tpc>>

EmitColon ==
  /\ tpc = "run" /\ i <= Len(text)
  /\ text[i] \notin Whitespace
  /\ text[i] \notin Structural
  /\ text[i] = Colon
  /\ tokens' = Append(tokens, <<text[i]>>)
  /\ starts' = Append(starts, i)
  /\ i' = i + 1
  /\ UNCHANGED <<text, tpc>>

EmitWord ==
  /\ tpc = "run" /\ i <= Len(text)
  /\ text[i] \notin Whitespace
  /\ text[i] \notin Structural
  /\ text[i] # Colon
  /\ LET start == i
         stop == WordEnd(text, i)
     IN  /\ i' = stop
         /\ tokens' = Append(tokens, SubSeq(text, start, stop - 1))
         /\ starts' = Append(starts, start)
  /\ UNCHANGED <<text, tpc>>

TokReturn ==
  /\ tpc = "run" /\ ~(i <= Len(text))
  /\ tpc' = "done"
  /\ UNCHANGED <<text, i, tokens, starts>>

TokFrame ==
  UNCHANGED <<pos, stack, mode, ret, err, last, tree, fargs, counter, out, calls>>

tokenize ==
  \/ SkipSpace /\ TokFrame
  \/ EmitStructural /\ TokFrame
  \/ EmitColon /\ TokFrame
  \/ EmitWord /\ TokFrame
  \/ TokReturn /\ TokFrame

(***************************************************************************)
(* Python values used by the Parser.                                       *)
(***************************************************************************)
\* None, as returned by current_token past the end.  No token is empty.
None == <<>>

NoneStr == <<"N", "o", "n", "e">>

\* str(x) / f"{x}" of a token or None
PyStr(x) == IF x = None THEN NoneStr ELSE x

DigitChars == <<"0", "1", "2", "3", "4", "5", "6", "7", "8", "9">>

DigitVal(c) == (CHOOSE n \in 1..10 : DigitChars[n] = c) - 1

RECURSIVE DigitsToNat(_)
DigitsToNat(s) ==
  IF s = <<>> THEN 0
  ELSE 10 * DigitsToNat(SubSeq(s, 1, Len(s) - 1)) + DigitVal(s[Len(s)])

RECURSIVE NatToDigits(_)
NatToDigits(n) ==
  IF n < 10 THEN <<DigitChars[n + 1]>>
  ELSE Append(NatToDigits(n \div 10), DigitChars[(n % 10) + 1])

\* s.isdigit()
IsDigit(s) == Len(s) > 0 /\ \A k \in 1..Len(s) : s[k] \in Digits

\* s.replace('.', '')
RemoveDots(s) == SelectSeq(s, LAMBDA c : c # ".")

\* '.' in s
HasDot(s) == \E k \in 1..Len(s) : s[k] = "."

DotCount(s) == Cardinality({k \in 1..Len(s) : s[k] = "."})

HasSign(s) == Len(s) > 0 /\ s[1] \in {"-", "+"}

Unsigned(s) == IF HasSign(s) THEN SubSeq(s, 2, Len(s)) ELSE s

RECURSIVE StripTrailingZeros(_)
StripTrailingZeros(s) ==
  IF s # <<>> /\ s[Len(s)] = "0" THEN StripTrailingZeros(SubSeq(s, 1, Len(s) - 1)) ELSE s

\* int(x): the exception it raises, "" for none.  Over the model's characters
\* (digits, letters, '.', '-', '+') int accepts an optional sign and digits.
IntError(x) ==
  IF x = None THEN "TypeError"
  ELSE IF IsDigit(Unsigned(x)) THEN "" ELSE "ValueError"

IntValue(x) ==
  IF HasSign(x) /\ x[1] = "-" THEN 0 - DigitsToNat(Unsigned(x)) ELSE DigitsToNat(Unsigned(x))

\* float(x): the exception it raises, "" for none.  Over the model's characters
\* float accepts an optional sign, digits and at most one '.', with a digit
\* somewhere ("1.", ".5" and "3" are floats, "1.2.3" and "." are not).
FloatError(x) ==
  IF x = None THEN "TypeError"
  ELSE IF DotCount(Unsigned(x)) <= 1 /\ IsDigit(RemoveDots(Unsigned(x))) THEN ""
  ELSE "ValueError"

DotAt(s) == IF HasDot(s) THEN CHOOSE k \in 1..Len(s) : s[k] = "." ELSE Len(s) + 1

\* The float as a decimal: sign, integer part, fraction digits without trailing
\* zeros.  Exact for the short tokens of the model.
FloatValue(x) ==
  LET u == Unsigned(x)
      d == DotAt(u)
  IN  [neg |-> HasSign(x) /\ x[1] = "-",
       ip  |-> DigitsToNat(SubSeq(u, 1, d - 1)),
       fd  |-> StripTrailingZeros(SubSeq(u, d + 1, Len(u)))]

(***************************************************************************)
(* AST nodes (lines 6-53).                                                 *)
(***************************************************************************)
Symbol(name) == [type |-> "Symbol", name |-> name]

Integer(value) == [type |-> "Integer", value |-> value]

Float(value) == [type |-> "Float", value |-> value]

Boolean(value) == [type |-> "Boolean", value |-> value]

String(value) == [type |-> "String", value |-> value]

Function(name, args) == [type |-> "Function", name |-> name, args |-> args]

List(elements) == [type |-> "List", elements |-> elements]

Dict(keys, values) == [type |-> "Dict", keys |-> keys, values |-> values]

NoNode == [type |-> "None"]

(***************************************************************************)
(* Parser                                                                  *)
(***************************************************************************)
tkSymbol == <<"S", "y", "m", "b", "o", "l">>
tkInt == <<"I", "n", "t">>
tkLong == <<"L", "o", "n", "g">>
tkReal == <<"R", "e", "a", "l">>
tkFloat == <<"F", "l", "o", "a", "t">>
tkBool == <<"B", "o", "o", "l">>
tkFunc == <<"F", "u", "n", "c">>
tkLSymbol == <<"L", "S", "y", "m", "b", "o", "l">>
tkUnknown == <<"X", "y">>

\* Parser.current_token
current_token(toks, p) == IF p > Len(toks) THEN None ELSE toks[p]

\* token and token[0].isupper()
StartsUpper(token) == token # None /\ token[1] \in Upper

Top == stack[Len(stack)]

Pop == SubSeq(stack, 1, Len(stack) - 1)

Raise(exc, what) ==
  /\ mode' = "error"
  /\ err' = exc
  /\ ret' = NoNode
  /\ stack' = <<>>
  /\ last' = what

(***************************************************************************)
(* parse_expression (lines 100-113) dispatches on the current token; each  *)
(* of its four branches is an action.                                      *)
(***************************************************************************)
\* parse_list, up to its loop (lines 117-119)
parse_list ==
  /\ mode = "expr"
  /\ current_token(tokens, pos) = <<"[">>
  /\ pos' = pos + 1
  /\ stack' = Append(stack, [kind |-> "list", elements |-> <<>>])
  /\ mode' = "list"
  /\ last' = [op |-> "parse_list"]
  /\ UNCHANGED <<ret, err>>

\* the loop of parse_list (lines 120-128): one evaluation of the loop condition
\* and what follows it
parse_list_loop ==
  /\ mode = "list"
  /\ LET token == current_token(tokens, pos)
     IN  IF token = <<"]">>
         THEN /\ pos' = pos + 1
              /\ ret' = List(Top.elements)
              /\ stack' = Pop
              /\ mode' = "ret"
              /\ last' = [op |-> "list_close"]
         ELSE IF token = <<",">>
         THEN /\ pos' = pos + 1
              /\ mode' = "list"
              /\ last' = [op |-> "list_comma"]
              /\ UNCHANGED <<ret, stack>>
         ELSE /\ mode' = "expr"
              /\ last' = [op |-> "list_element", exhausted |-> token = None]
              /\ UNCHANGED <<pos, ret, stack>>
  /\ UNCHANGED err

\* elements.append(...); idx += 1 (lines 124-125)
parse_list_append ==
  /\ mode = "ret"
  /\ stack # <<>> /\ Top.kind = "list"
  /\ stack' = Append(Pop, [Top EXCEPT !.elements = Append(@, ret)])
  /\ mode' = "list"
  /\ ret' = NoNode
  /\ last' = [op |-> "list_append"]
  /\ UNCHANGED <<pos, err>>

\* parse_dict, up to the parse of the keys (lines 132-135)
parse_dict ==
  /\ mode = "expr"
  /\ current_token(tokens, pos) # <<"[">>
  /\ current_token(tokens, pos) = <<"{">>
  /\ pos' = pos + 1
  /\ stack' = Append(stack, [kind |-> "dict", stage |-> "keys", keys |-> NoNode,
                             open |-> pos, sep |-> 0])
  /\ mode' = "expr"
  /\ last' = [op |-> "parse_dict"]
  /\ UNCHANGED <<ret, err>>

\* the separator consumed without a comparison
ExpectComma_Unchecked(token) == FALSE

\* not (self.current_token() == ','): the condition of line 138
ExpectComma(token) == token # <<",">>

\* not (self.current_token() == '}'): the condition of line 146
ExpectBrace(token) == token # <<"}">>

\* parse_dict after the keys (lines 137-143)
parse_dict_keys ==
  /\ mode = "ret"
  /\ stack # <<>> /\ Top.kind = "dict" /\ Top.stage = "keys"
  /\ LET what == [op |-> "dict_keys", at |-> pos]
     IN  IF ExpectComma(current_token(tokens, pos))
         THEN Raise("ValueError", what) /\ UNCHANGED pos
         ELSE /\ pos' = pos + 1
              /\ stack' = Append(Pop, [Top EXCEPT !.stage = "values", !.keys = ret,
                                                  !.sep = pos])
              /\ mode' = "expr"
              /\ ret' = NoNode
              /\ last' = what
              /\ UNCHANGED err

\* parse_dict after the values (lines 145-150)
parse_dict_values ==
  /\ mode = "ret"
  /\ stack # <<>> /\ Top.kind = "dict" /\ Top.stage = "values"
  /\ LET what == [op |-> "dict_values", at |-> pos, open |-> Top.open, sep |-> Top.sep]
     IN  IF ExpectBrace(current_token(tokens, pos))
         THEN Raise("ValueError", what) /\ UNCHANGED pos
         ELSE /\ pos' = pos + 1
              /\ ret' = Dict(Top.keys, ret)
              /\ stack' = Pop
              /\ mode' = "ret"
              /\ last' = what
              /\ UNCHANGED err

\* The branches of parse_type_constructor with one payload token (lines 162-181
\* and 192-196): the exception raised ("" for none) and the node built.
CtorNode(type_name, payload) ==
  IF type_name = tkSymbol THEN [exc |-> "", node |-> Symbol(payload)]
  ELSE IF type_name \in {tkInt, tkLong}
  THEN IF IntError(payload) # "" THEN [exc |-> IntError(payload), node |-> NoNode]
       ELSE [exc |-> "", node |-> Integer(IntValue(payload))]
  ELSE IF type_name \in {tkReal, tkFloat}
  THEN IF FloatError(payload) # "" THEN [exc |-> FloatError(payload), node |-> NoNode]
       ELSE [exc |-> "", node |-> Float(FloatValue(payload))]
  ELSE IF type_name = tkBool THEN [exc |-> "", node |-> Boolean(payload = <<"1">>)]
  ELSE IF type_name = tkFunc THEN [exc |-> "", node |-> Function(payload, <<>>)]
  ELSE [exc |-> "", node |-> String(type_name \o <<"[">> \o PyStr(payload) \o <<"]">>)]

\* parse_type_constructor (lines 152-196); the LSymbol branch runs to its loop.
\* The token after the payload is consumed as the terminator without a
\* comparison (lines 164, 168, 172, 176, 180, 195).
parse_type_constructor ==
  /\ mode = "expr"
  /\ current_token(tokens, pos) \notin {<<"[">>, <<"{">>}
  /\ StartsUpper(current_token(tokens, pos))
  /\ LET type_name == current_token(tokens, pos)
         payload == current_token(tokens, pos + 2)
         term == current_token(tokens, pos + 3)
         what == [op |-> "ctor", name |-> type_name, from |-> pos]
     IN  IF current_token(tokens, pos + 1) # <<"[">>
         THEN /\ pos' = pos + 1
              /\ ret' = String(type_name)
              /\ mode' = "ret"
              /\ last' = [what EXCEPT !.op = "bareword"]
              /\ UNCHANGED <<stack, err>>
         ELSE IF type_name = tkLSymbol
         THEN /\ pos' = pos + 2
              /\ stack' = Append(stack, [kind |-> "lsym", symbols |-> <<>>])
              /\ mode' = "lsym"
              /\ last' = [what EXCEPT !.op = "lsymbol"]
              /\ UNCHANGED <<ret, err>>
         ELSE IF CtorNode(type_name, payload).exc # ""
         THEN /\ pos' = pos + 3
              /\ Raise(CtorNode(type_name, payload).exc, what)
         ELSE /\ pos' = pos + 4
              /\ ret' = CtorNode(type_name, payload).node
              /\ mode' = "ret"
              /\ last' = [op |-> "ctor", name |-> type_name, from |-> pos,
                          payload |-> payload, term |-> term]
              /\ UNCHANGED <<stack, err>>

\* the loop of the LSymbol branch (lines 185-191): one evaluation of the loop
\* condition and what follows it.  Past the end of the tokens current_token is
\* None whatever pos is; the model stops counting after MaxOverrun reads past
\* the end, where the step no longer changes the state it keeps.
lsymbol_loop ==
  /\ mode = "lsym"
  /\ LET token == current_token(tokens, pos)
     IN  IF token = <<"]">>
         THEN /\ pos' = pos + 1
              /\ ret' = List(Top.symbols)
              /\ stack' = Pop
              /\ mode' = "ret"
              /\ last' = [op |-> "lsym_close"]
         ELSE IF token = <<",">>
         THEN /\ pos' = pos + 1
              /\ mode' = "lsym"
              /\ last' = [op |-> "lsym_comma"]
              /\ UNCHANGED <<ret, stack>>
         ELSE IF pos - Len(tokens) > MaxOverrun
         THEN UNCHANGED <<pos, ret, stack, mode, last>>
         ELSE /\ pos' = pos + 1
              /\ stack' = Append(Pop, [Top EXCEPT !.symbols = Append(@, Symbol(token))])
              /\ mode' = "lsym"
              /\ last' = [op |-> "lsym_symbol", exhausted |-> token = None]
              /\ UNCHANGED ret
  /\ UNCHANGED err

\* parse_simple_token (lines 198-205): the exception raised ("" for none) and
\* the node built
SimpleNode(token) ==
  IF token = None THEN [exc |-> "AttributeError", node |-> NoNode]
  ELSE IF IsDigit(token) THEN [exc |-> "", node |-> Integer(IntValue(token))]
  ELSE IF IsDigit(RemoveDots(token)) /\ HasDot(token)
  THEN IF FloatError(token) # "" THEN [exc |-> FloatError(token), node |-> NoNode]
       ELSE [exc |-> "", node |-> Float(FloatValue(token))]
  ELSE [exc |-> "", node |-> String(token)]

\* the last branch of parse_expression (lines 110-113)
parse_simple_token ==
  /\ mode = "expr"
  /\ current_token(tokens, pos) \notin {<<"[">>, <<"{">>}
  /\ ~StartsUpper(current_token(tokens, pos))
  /\ LET token == current_token(tokens, pos)
         what == [op |-> "simple", token |-> token, from |-> pos]
     IN  /\ pos' = pos + 1
         /\ IF SimpleNode(token).exc # ""
            THEN Raise(SimpleNode(token).exc, what)
            ELSE /\ ret' = SimpleNode(token).node
                 /\ mode' = "ret"
                 /\ last' = what
                 /\ UNCHANGED <<stack, err>>

\* Parser.parse returns (line 98)
parse_return ==
  /\ mode = "ret"
  /\ stack = <<>>
  /\ mode' = "done"
  /\ last' = [op |-> "return"]
  /\ UNCHANGED <<pos, stack, ret, err>>

(***************************************************************************)
(* Specifications of the Parser.                                           *)
(***************************************************************************)
ParseTokens ==
  { <<"[">>, <<"]">>, <<",">>, <<"{">>, <<"}">>,
    tkSymbol, tkFunc, tkLSymbol, tkInt, tkReal, tkBool, tkUnknown,
    <<"a">>, <<"7">>, <<"1", ".", "5">>, <<"1", ".", "2", ".", "3">> }

DictTokens == { <<"[">>, <<"]">>, <<",">>, <<"{">>, <<"}">>, tkLSymbol, <<"a">> }

TokIdle == text = <<>> /\ i = 1 /\ starts = <<>> /\ tpc = "done"

RenderIdle ==
  /\ tree = NoNode
  /\ fargs = <<>>
  /\ counter = 0
  /\ out = [by |-> "none"]
  /\ calls = 0

\* Parser.__init__ (lines 82-84)
ParserInit ==
  /\ pos = 1
  /\ stack = <<>>
  /\ mode = "expr"
  /\ ret = NoNode
  /\ err = ""
  /\ last = [op |-> "init"]

Init ==
  /\ tokens \in SeqsUpTo(ParseTokens, MaxTokens)
  /\ ParserInit /\ TokIdle /\ RenderIdle

InitDict ==
  /\ tokens \in {<<(<<"{">>)>> \o t : t \in SeqsUpTo(DictTokens, MaxDictTail)}
  /\ ParserInit /\ TokIdle /\ RenderIdle

ParserFrame == UNCHANGED <<text, i, tokens, starts, tpc, tree, fargs, counter, out, calls>>

Next ==
  \/ parse_list /\ ParserFrame
  \/ parse_list_loop /\ ParserFrame
  \/ parse_list_append /\ ParserFrame
  \/ parse_dict /\ ParserFrame
  \/ parse_dict_keys /\ ParserFrame
  \/ parse_dict_values /\ ParserFrame
  \/ parse_type_constructor /\ ParserFrame
  \/ lsymbol_loop /\ ParserFrame
  \/ parse_simple_token /\ ParserFrame
  \/ parse_return /\ ParserFrame

Spec == Init /\ [][Next]_vars

SpecDict == InitDict /\ [][Next]_vars

\* The program is sequential: a step that can be taken is taken.
FairSpec == Init /\ [][Next]_vars /\ WF_vars(Next)

InitTok == TokInit /\ ParserInit /\ RenderIdle

SpecTok == InitTok /\ [][tokenize]_vars /\ WF_vars(tokenize)

(***************************************************************************)
(* The renderers.  A node is named by its path from the root (the index of *)
(* each element, 1 for a Dict's keys and 2 for its values).  The one field *)
(* the renderers assign, Function.args, is kept apart from the tree: h maps*)
(* the path of each Function node to the paths of the nodes its args list  *)
(* holds, so that args holds the list's own element objects, as in Python. *)
(***************************************************************************)
RECURSIVE NodeAt(_, _)
NodeAt(t, p) ==
  IF p = <<>> THEN t
  ELSE IF t.type = "List" THEN NodeAt(t.elements[Head(p)], Tail(p))
  ELSE NodeAt(IF Head(p) = 1 THEN t.keys ELSE t.values, Tail(p))

RECURSIVE PathsOf(_, _)
PathsOf(t, p) ==
  {p} \cup
  IF t.type = "List"
  THEN UNION {PathsOf(t.elements[k], Append(p, k)) : k \in 1..Len(t.elements)}
  ELSE IF t.type = "Dict"
  THEN PathsOf(t.keys, Append(p, 1)) \cup PathsOf(t.values, Append(p, 2))
  ELSE {}

FunctionPaths(t) == {p \in PathsOf(t, <<>>) : NodeAt(t, p).type = "Function"}

\* args as the Parser leaves it: Function(func_name, []) (line 181)
ParsedArgs(t) == [p \in FunctionPaths(t) |-> <<>>]

\* The backtick character (a string of the module cannot hold it).
Backtick == "backtick"

RECURSIVE Join(_, _)
Join(ss, sep) ==
  IF ss = <<>> THEN <<>>
  ELSE IF Len(ss) = 1 THEN ss[1]
  ELSE ss[1] \o sep \o Join(Tail(ss), sep)

CommaSpace == <<",", " ">>

\* str(int)
IntStr(n) == IF n < 0 THEN <<"-">> \o NatToDigits(0 - n) ELSE NatToDigits(n)

\* str(float), for the decimals of the model
FloatRepr(v) ==
  (IF v.neg THEN <<"-">> ELSE <<>>) \o NatToDigits(v.ip) \o <<".">>
    \o (IF v.fd = <<>> THEN <<"0">> ELSE v.fd)

\* lines 224-227 and 291-294
FloatStr(v) == IF ~HasDot(FloatRepr(v)) THEN FloatRepr(v) \o <<".", "0">> ELSE FloatRepr(v)

BoolStr(b) == IF b THEN <<"T", "r", "u", "e">> ELSE <<"F", "a", "l", "s", "e">>

\* glyph_map of transform_ast (lines 302-313)
transform_glyph(name) ==
  CASE name = <<"@">> -> <<"a", "t">>
    [] name = <<"!">> -> <<"b", "a", "n", "g">>
    [] name = <<":">> -> <<"c", "o", "l", "o", "n">>
    [] name = <<":", ":">> -> <<"c", "o", "l", "o", "n", "_", "c", "o", "l", "o", "n">>
    [] name = <<"-">> -> <<"d", "a", "s", "h">>
    [] name = <<".">> -> <<"d", "o", "t">>
    [] name = <<"$">> -> <<"d", "o", "l", "l", "a", "r">>
    [] name = <<"#">> -> <<"h", "a", "s", "h">>
    [] name = <<"?">> -> <<"q", "u", "e", "r", "y">>
    [] OTHER -> name

\* the Flattener's table without its entry for '-'
flatten_glyph_NoDash(name) == IF name = <<"_">> THEN <<"u", "n", "d", "e", "r", "s", "c", "o", "r", "e">> ELSE name

\* glyph_map of Flattener.flatten_ast (lines 234-239)
flatten_glyph(name) ==
  CASE name = <<"@">> -> <<"a", "t">>
    [] name = <<"!">> -> <<"b", "a", "n", "g">>
    [] name = <<":">> -> <<"c", "o", "l", "o", "n">>
    [] name = <<":", ":">> -> <<"c", "o", "l", "o", "n", "_", "c", "o", "l", "o", "n">>
    [] name = <<"-">> -> <<"d", "a", "s", "h">>
    [] name = <<".">> -> <<"d", "o", "t">>
    [] name = <<"$">> -> <<"d", "o", "l", "l", "a", "r">>
    [] name = <<"#">> -> <<"h", "a", "s", "h">>
    [] name = <<"?">> -> <<"q", "u", "e", "r", "y">>
    [] name = <<"_">> -> <<"u", "n", "d", "e", "r", "s", "c", "o", "r", "e">>
    [] OTHER -> name

\* node.elements[2:]
ElementsAfterSecond(p, node) == [k \in 1..(Len(node.elements) - 2) |-> Append(p, k + 2)]

\* node.elements[1:] (lines 260 and 320), as paths
ElementsAfterFirst(p, node) == [k \in 1..(Len(node.elements) - 1) |-> Append(p, k + 1)]

ElementPaths(p, node) == [k \in 1..Len(node.elements) |-> Append(p, k)]

\* isinstance(node.elements[0], Function), for a non-empty list
IsCall(node) == node.elements # <<>> /\ node.elements[1].type = "Function"

\* func.args = ... (lines 260 and 321)
SetArgs(h, fp, paths) == [h EXCEPT ![fp] = paths]

(***************************************************************************)
(* transform_ast (lines 283-333): the string returned and the args after.  *)
(***************************************************************************)
RECURSIVE transform_ast(_, _, _), transform_each(_, _, _)
transform_ast(t, p, h) ==
  LET node == NodeAt(t, p)
  IN  CASE node.type = "Symbol" -> [s |-> <<Backtick>> \o PyStr(node.name), h |-> h]
        [] node.type = "Integer" -> [s |-> IntStr(node.value), h |-> h]
        [] node.type = "Float" -> [s |-> FloatStr(node.value), h |-> h]
        [] node.type = "Boolean" -> [s |-> BoolStr(node.value), h |-> h]
        [] node.type = "String" -> [s |-> node.value, h |-> h]
        [] node.type = "Function" ->
             LET r == transform_each(t, h[p], h)
             IN  [s |-> PyStr(transform_glyph(node.name)) \o <<"(">>
                          \o Join(r.ss, CommaSpace) \o <<")">>,
                  h |-> r.h]
        [] node.type = "List" ->
             IF IsCall(node)
             THEN transform_ast(t, Append(p, 1),
                                SetArgs(h, Append(p, 1), ElementsAfterFirst(p, node)))
             ELSE LET r == transform_each(t, ElementPaths(p, node), h)
                  IN  [s |-> <<"[">> \o Join(r.ss, CommaSpace) \o <<"]">>, h |-> r.h]
        [] node.type = "Dict" ->
             LET k == transform_ast(t, Append(p, 1), h)
                 v == transform_ast(t, Append(p, 2), k.h)
             IN  [s |-> <<"{">> \o k.s \o <<":", " ">> \o v.s \o <<"}">>, h |-> v.h]

\* transform_ast(arg) for arg in ..., in order
transform_each(t, ps, h) ==
  IF ps = <<>> THEN [ss |-> <<>>, h |-> h]
  ELSE LET r == transform_ast(t, Head(ps), h)
           rest == transform_each(t, Tail(ps), r.h)
       IN  [ss |-> <<r.s>> \o rest.ss, h |-> rest.h]

(***************************************************************************)
(* Flattener.flatten_ast (lines 212-280): the statements and the expression*)
(* returned, the args and the temp_counter after.                          *)
(***************************************************************************)
TempName(n) == <<"t", "e", "m", "p">> \o IntStr(n)

\* the counter stepped by two
NextTemp_Skip(c) == c + 2

\* self.temp_counter += 1 (line 251)
NextTemp(c) == c + 1

RECURSIVE flatten_ast(_, _, _, _), flatten_each(_, _, _, _)
flatten_ast(t, p, h, c) ==
  LET node == NodeAt(t, p)
      leaf(e) == [statements |-> <<>>, expr |-> e, h |-> h, c |-> c]
  IN  CASE node.type = "Symbol" -> leaf(<<Backtick>> \o PyStr(node.name))
        [] node.type = "Integer" -> leaf(IntStr(node.value))
        [] node.type = "Float" -> leaf(FloatStr(node.value))
        [] node.type = "Boolean" -> leaf(BoolStr(node.value))
        [] node.type = "String" -> leaf(node.value)
        [] node.type = "Function" ->
             LET r == flatten_each(t, h[p], h, c)
                 temp_counter == NextTemp(r.c)
                 temp_name == TempName(temp_counter)
             IN  [statements |->
                    Append(r.statements,
                           temp_name \o <<" ", "=", " ">> \o PyStr(flatten_glyph(node.name))
                             \o <<"(">> \o Join(r.exprs, CommaSpace) \o <<")">>),
                  expr |-> temp_name, h |-> r.h, c |-> temp_counter]
        [] node.type = "List" ->
             IF IsCall(node)
             THEN flatten_ast(t, Append(p, 1),
                              SetArgs(h, Append(p, 1), ElementsAfterFirst(p, node)), c)
             ELSE LET r == flatten_each(t, ElementPaths(p, node), h, c)
                  IN  [statements |-> r.statements,
                       expr |-> <<"[">> \o Join(r.exprs, CommaSpace) \o <<"]">>,
                       h |-> r.h, c |-> r.c]
        [] node.type = "Dict" ->
             LET k == flatten_ast(t, Append(p, 1), h, c)
                 v == flatten_ast(t, Append(p, 2), k.h, k.c)
             IN  [statements |-> k.statements \o v.statements,
                  expr |-> <<"{">> \o k.expr \o <<":", " ">> \o v.expr \o <<"}">>,
                  h |-> v.h, c |-> v.c]

\* the loops of lines 243-246 and 265-268
flatten_each(t, ps, h, c) ==
  IF ps = <<>> THEN [statements |-> <<>>, exprs |-> <<>>, h |-> h, c |-> c]
  ELSE LET r == flatten_ast(t, Head(ps), h, c)
           rest == flatten_each(t, Tail(ps), r.h, r.c)
       IN  [statements |-> r.statements \o rest.statements,
            exprs |-> <<r.expr>> \o rest.exprs, h |-> rest.h, c |-> rest.c]

\* flatten without the reset of the counter
FlattenStart_Keep(c) == c

\* self.temp_counter = 0 (line 210)
FlattenStart(c) == 0

(***************************************************************************)
(* Specification of the renderers: a tree the Parser can build is rendered *)
(* again and again, by either renderer, in any order.                      *)
(***************************************************************************)
TempOne == <<"t", "e", "m", "p", "1">>

\* Symbol[a], 7, Float[3], the bare word temp1, Func[-], Func[_]
RenderLeaves ==
  { Symbol(<<"a">>), Integer(IntValue(<<"7">>)), Float(FloatValue(<<"3">>)),
    String(TempOne), Function(<<"-">>, <<>>), Function(<<"_">>, <<>>) }

\* The trees of exactly n nodes, and the sequences of trees of m nodes in all.
RECURSIVE Trees(_), Forests(_)
Trees(n) ==
  (IF n = 1 THEN RenderLeaves ELSE {})
    \cup {List(f) : f \in Forests(n - 1)}
    \cup UNION {{Dict(k, v) : k \in Trees(a), v \in Trees(n - 1 - a)} : a \in 1..(n - 2)}

Forests(m) ==
  IF m = 0 THEN {<<>>}
  ELSE UNION {{<<t>> \o f : t \in Trees(j), f \in Forests(m - j)} : j \in 1..m}

InitRender ==
  /\ tree \in UNION {Trees(n) : n \in 1..MaxNodes}
  /\ fargs = ParsedArgs(tree)
  /\ counter = 0
  /\ out = [by |-> "none"]
  /\ calls = 0
  /\ tokens = <<>> /\ ParserInit /\ TokIdle

RenderFrame == UNCHANGED <<text, i, tokens, starts, tpc, pos, stack, mode, ret, err, last>>

\* transform_ast(ast) (line 347)
Transform ==
  /\ LET r == transform_ast(tree, <<>>, fargs)
     IN  /\ out' = [by |-> "transform", s |-> r.s]
         /\ fargs' = r.h
  /\ calls' = IF calls < 2 THEN calls + 1 ELSE calls
  /\ UNCHANGED <<tree, counter>>
  /\ RenderFrame

\* Flattener.flatten (lines 209-211)
Flatten ==
  /\ LET r == flatten_ast(tree, <<>>, fargs, FlattenStart(counter))
     IN  /\ out' = [by |-> "flatten", statements |-> r.statements, expr |-> r.expr]
         /\ fargs' = r.h
         /\ counter' = r.c
  /\ calls' = IF calls < 2 THEN calls + 1 ELSE calls
  /\ UNCHANGED tree
  /\ RenderFrame

NextRender == Transform \/ Flatten

SpecRender == InitRender /\ [][NextRender]_vars

(***************************************************************************)
(* Claims about the Parser.                                                *)
(***************************************************************************)
Finished == mode \in {"done", "error"}

\* The parser read past the last token: a consume() returned None.  consume is
\* reached past the end only for the payload or the terminator of a
\* constructor, for a symbol of LSymbol, or for a simple token where an
\* expression is due.
ReadPastEnd == pos > Len(tokens) + 1

\* C1: when a list, a dict or a constructor is opened and the tokens run out
\* before its closing bracket, Parser.parse ends in an error and returns no
\* node: a parse that returns has never read past the end of the tokens.
C1_UnterminatedFails == mode = "done" => ~ReadPastEnd

\* C2: for every finite token sequence Parser.parse terminates, returning a
\* node or raising an error; the loops of parse_list and of the LSymbol
\* branch always exit.
C2_Terminates == <>Finished

\* C3: parse_dict raises a structural error (ValueError) when the token after
\* the keys is not ',' or the token after the values is not '}', and returns a
\* Dict only when the tokens it consumed are '{' keys ',' values '}'.
C3_DictShape ==
  /\ (last.op = "dict_keys" /\ current_token(tokens, last.at) # <<",">>)
       => (mode = "error" /\ err = "ValueError" /\ ret = NoNode)
  /\ (last.op = "dict_values" /\ current_token(tokens, last.at) # <<"}">>)
       => (mode = "error" /\ err = "ValueError" /\ ret = NoNode)
  /\ (mode \in {"ret", "done"} /\ ret.type = "Dict")
       => /\ last.op \in {"dict_values", "return"}
          /\ last.op = "dict_values" =>
               /\ last.open < last.sep /\ last.sep < last.at /\ last.at <= Len(tokens)
               /\ tokens[last.open] = <<"{">>
               /\ tokens[last.sep] = <<",">>
               /\ tokens[last.at] = <<"}">>
               /\ pos = last.at + 1

\* A dict whose values are followed by a token that is not '}' was refused.
C3_Witness ==
  /\ mode = "error" /\ last.op = "dict_values"
  /\ last.at <= Len(tokens) /\ tokens[last.at] # <<"}">>

\* What the claim C7 says a simple token parses to.
ClaimedSimpleNode(token) ==
  IF IsDigit(token) THEN "Integer"
  ELSE IF DotCount(token) = 1 /\ IsDigit(RemoveDots(token)) THEN "Float"
  ELSE "String"

\* C7: for every token that is not '[', not '{' and does not start with an
\* uppercase letter, parse_expression consumes that one token and returns
\* without error an Integer (all digits), a Float (exactly one '.', digits
\* otherwise) or else a String holding the token.
C7_SimpleToken ==
  (last.op = "simple" /\ last.token # None)
    => /\ mode = "ret"
       /\ pos = last.from + 1
       /\ ret.type = ClaimedSimpleNode(last.token)
       /\ ret.type = "String" => ret.value = last.token

\* C8: a single-payload constructor followed by '[' that returns a node has
\* consumed exactly the name, '[', one payload token and ']': whenever a token
\* stands where the terminator is consumed, that token is ']'.
C8_TerminatorIsBracket ==
  (last.op = "ctor" /\ mode = "ret" /\ last.from + 3 <= Len(tokens))
    => /\ pos = last.from + 4
       /\ last.term = tokens[last.from + 3]
       /\ last.term = <<"]">>

(***************************************************************************)
(* Claim about tokenize.                                                   *)
(***************************************************************************)
RECURSIVE Concat(_)
Concat(ss) == IF ss = <<>> THEN <<>> ELSE Head(ss) \o Concat(Tail(ss))

ClaimedSymbols == {"[", "]", "(", ")", ",", "{", "}", ":"}

ClaimedSpace == {" ", "\t", "\n"}

Separates(c) == c \in ClaimedSymbols \/ c \in ClaimedSpace

\* Token k is the text from starts[k] on, and is one structural character or
\* a run of other characters that no such character extends on either side.
TokenOk(k) ==
  LET tok == tokens[k]
      from == starts[k]
      to == starts[k] + Len(tokens[k]) - 1
  IN  /\ tok # <<>>
      /\ 1 <= from /\ to <= Len(text)
      /\ tok = SubSeq(text, from, to)
      /\ k > 1 => starts[k - 1] + Len(tokens[k - 1]) <= from
      /\ \/ Len(tok) = 1 /\ tok[1] \in ClaimedSymbols
         \/ /\ \A j \in 1..Len(tok) : ~Separates(tok[j])
            /\ from > 1 => Separates(text[from - 1])
            /\ to < Len(text) => Separates(text[to + 1])

TokenizePost ==
  /\ Len(starts) = Len(tokens)
  /\ \A k \in 1..Len(tokens) : TokenOk(k)
  /\ Concat(tokens) = SelectSeq(text, LAMBDA c : c \notin ClaimedSpace)

\* C4: for every input text tokenize terminates without error and returns, in
\* left-to-right order, tokens that are each one of the characters
\* [ ] ( ) , { } : or a non-empty maximal run without whitespace and without
\* those characters; the tokens concatenated are the text without whitespace.
C4_Tokenize == [](tpc = "done" => TokenizePost) /\ <>(tpc = "done")

\* tokenize returned two words that only whitespace separated.
C4_Witness ==
  /\ tpc = "done" /\ Len(tokens) >= 2
  /\ \E k \in 1..(Len(tokens) - 1) :
       /\ tokens[k][1] \notin ClaimedSymbols
       /\ tokens[k + 1][1] \notin ClaimedSymbols

(***************************************************************************)
(* Claims about the renderers.                                             *)
(***************************************************************************)
Rendered == out.by # "none"

ParentOf(p) == SubSeq(p, 1, Len(p) - 1)

\* The Function node at p is the first element of a List.
IsListHead(t, p) ==
  /\ p # <<>> /\ p[Len(p)] = 1
  /\ NodeAt(t, ParentOf(p)).type = "List"

\* The elements after the first of the List that p is the head of.
SiblingsAfter(t, p) ==
  [k \in 1..(Len(NodeAt(t, ParentOf(p)).elements) - 1) |-> Append(ParentOf(p), k + 1)]

\* C9: after any sequence of transform_ast and Flattener.flatten invocations
\* the args of a Function node that is the first element of a List are that
\* list's remaining elements in order, and the args of every other Function
\* node are empty as parsed; before any invocation all args are as parsed.
\* (args is the only field either renderer assigns, so the rest of the tree
\* is the parsed tree.)
C9_OnlyHeadArgsChange ==
  /\ ~Rendered => fargs = ParsedArgs(tree)
  /\ Rendered =>
       /\ DOMAIN fargs = FunctionPaths(tree)
       /\ \A p \in FunctionPaths(tree) :
            fargs[p] = IF IsListHead(tree, p) THEN SiblingsAfter(tree, p) ELSE <<>>

\* A rendered tree with a call that has arguments and a Function node that is
\* no list's head.
C9_Witness ==
  /\ Rendered
  /\ \E p \in FunctionPaths(tree) : IsListHead(tree, p) /\ fargs[p] # <<>>
  /\ \E p \in FunctionPaths(tree) : ~IsListHead(tree, p)

\* C6: whatever was rendered before, transform_ast and Flattener.flatten each
\* return what they return on the freshly parsed tree.
C6_SameOutputEveryTime ==
  /\ out.by = "transform" => out.s = transform_ast(tree, <<>>, ParsedArgs(tree)).s
  /\ out.by = "flatten" =>
       LET fresh == flatten_ast(tree, <<>>, ParsedArgs(tree), 0)
       IN  out.statements = fresh.statements /\ out.expr = fresh.expr

\* A renderer has run on a tree that earlier invocations, the Flattener among
\* them, had already rendered and whose args they had assigned.
C6_Witness ==
  /\ calls = 2
  /\ counter > 1
  /\ \E p \in FunctionPaths(tree) : fargs[p] # <<>>

HasPrefix(s, pre) == Len(pre) <= Len(s) /\ SubSeq(s, 1, Len(pre)) = pre

RECURSIVE DigitRunEnd(_, _)
DigitRunEnd(s, j) == IF j <= Len(s) /\ s[j] \in Digits THEN DigitRunEnd(s, j + 1) ELSE j

\* The text from j on reads temp and a digit.
TempAt(s, j) ==
  /\ j + 4 <= Len(s)
  /\ SubSeq(s, j, j + 3) = <<"t", "e", "m", "p">>
  /\ s[j + 4] \in Digits

TempIndex(s, j) == DigitsToNat(SubSeq(s, j + 4, DigitRunEnd(s, j + 4) - 1))

\* The indices of the temporaries a text names.
TempsIn(s) == {TempIndex(s, j) : j \in {k \in 1..Len(s) : TempAt(s, k)}}

NamesTemp(s) == \E j \in 1..Len(s) : TempAt(s, j)

\* No name or value of the tree reads like a temporary.
NoTempText(t) ==
  \A p \in PathsOf(t, <<>>) :
    LET node == NodeAt(t, p)
    IN  /\ node.type \in {"Symbol", "Function"} => ~NamesTemp(PyStr(node.name))
        /\ node.type = "String" => ~NamesTemp(node.value)

NoUnderscore(t) == \A p \in FunctionPaths(t) : NodeAt(t, p).name # <<"_">>

\* The Function nodes of the tree, each after the calls among its arguments,
\* arguments from left to right.
RECURSIVE PostOrderCalls(_, _), PostOrderEach(_, _, _)
PostOrderCalls(t, p) ==
  LET node == NodeAt(t, p)
  IN  IF node.type = "Function" THEN <<p>>
      ELSE IF node.type = "List"
      THEN IF node.elements # <<>> /\ node.elements[1].type = "Function"
           THEN PostOrderEach(t, p, 2) \o <<Append(p, 1)>>
           ELSE PostOrderEach(t, p, 1)
      ELSE IF node.type = "Dict"
      THEN PostOrderCalls(t, Append(p, 1)) \o PostOrderCalls(t, Append(p, 2))
      ELSE <<>>

PostOrderEach(t, p, k) ==
  IF k > Len(NodeAt(t, p).elements) THEN <<>>
  ELSE PostOrderCalls(t, Append(p, k)) \o PostOrderEach(t, p, k + 1)

Assigns == <<" ", "=", " ">>

\* "temp<i> = <name>(", the start of the statement of the i-th call
StatementHead(n, name) == TempName(n) \o Assigns \o name \o <<"(">>

FlattenOrdered ==
  LET n == Len(out.statements)
      order == PostOrderCalls(tree, <<>>)
  IN  /\ counter = n
      /\ Len(order) = n
      /\ \A k \in 1..n :
           LET head == StatementHead(k, PyStr(flatten_glyph(NodeAt(tree, order[k]).name)))
               stmt == out.statements[k]
           IN  /\ HasPrefix(stmt, head)
               /\ \A m \in TempsIn(SubSeq(stmt, Len(head) + 1, Len(stmt))) : m < k
      /\ \A m \in TempsIn(out.expr) : m \in 1..n

\* C5, as claimed: for every parsed tree Flattener.flatten counts from zero,
\* its i-th statement assigns temp<i> to the i-th call in post-order (arguments
\* left to right), every temporary named in the argument list of statement i
\* has an index smaller than i, and the final expression names only
\* temporaries already assigned.  (Stated for the trees that hold a call.)
C5_AsClaimed == (out.by = "flatten" /\ out.statements # <<>>) => FlattenOrdered

\* C5, amended: the same, for every parsed tree in which no Symbol name, String
\* value or Function name contains the text of a temporary (temp and a digit).
C5_PostOrder == (out.by = "flatten" /\ NoTempText(tree)) => FlattenOrdered

\* A flattening of three calls or more, one of them taking temporaries.
C5_Witness ==
  /\ out.by = "flatten" /\ NoTempText(tree)
  /\ Len(out.statements) >= 3
  /\ \E k \in 1..Len(out.statements) :
       Cardinality(TempsIn(SubSeq(out.statements[k], Len(TempName(k)) + 4,
                                  Len(out.statements[k])))) >= 2

\* The right-hand side of the statement that assigns temp<k>.
Rhs(statements, k) ==
  SubSeq(statements[k], Len(TempName(k) \o Assigns) + 1, Len(statements[k]))

\* s with every temporary that a statement assigns replaced by that
\* statement's right-hand side, and so on inside it; "stuck" stands where the
\* replacing does not end within depth nested replacements.
RECURSIVE Expand(_, _, _, _)
Expand(s, j, statements, depth) ==
  IF j > Len(s) THEN <<>>
  ELSE IF TempAt(s, j) /\ TempIndex(s, j) \in 1..Len(statements)
  THEN (IF depth = 0 THEN <<"stuck">>
        ELSE Expand(Rhs(statements, TempIndex(s, j)), 1, statements, depth - 1))
         \o Expand(s, DigitRunEnd(s, j + 4), statements, depth)
  ELSE <<s[j]>> \o Expand(s, j + 1, statements, depth)

FlattenAgrees ==
  /\ Len(out.statements) = Cardinality(FunctionPaths(tree))
  /\ Expand(out.expr, 1, out.statements, Len(out.statements))
       = transform_ast(tree, <<>>, fargs).s

\* C10, as claimed: for every parsed tree without a Function named _ the
\* flattening renderer emits one statement per call node, and its final
\* expression with every temporary replaced by the right-hand side of its
\* statement, until none remains, is the string transform_ast returns.
C10_AsClaimed == (out.by = "flatten" /\ NoUnderscore(tree)) => FlattenAgrees

\* C10, amended: the same, for every parsed tree without a Function named _
\* in which no Symbol name, String value or Function name contains the text
\* of a temporary (temp and a digit).
C10_RenderersAgree ==
  (out.by = "flatten" /\ NoUnderscore(tree) /\ NoTempText(tree)) => FlattenAgrees

\* A flattening of a call nested in a call, with a glyph for a name.
C10_Witness ==
  /\ out.by = "flatten" /\ NoUnderscore(tree) /\ NoTempText(tree)
  /\ Len(out.statements) >= 2
  /\ NamesTemp(Rhs(out.statements, Len(out.statements)))

====
